---- MODULE Spec2Model ----
(***************************************************************************)
(* garlic: the APK fan-out (src/apk/apk.c) and the command-line front end. *)
(*                                                                         *)
(* Spec      one call of apk_decompile_analyse: the submitting main thread *)
(*           and the workers of the thread pool, interleaved.              *)
(* FairSpec  Spec with the fairness the pthread scheduler gives.           *)
(* ErrSpec   Spec on an archive that holds a malformed .dex entry.         *)
(* MainSpec  main: parse_opt, the dispatch on the file type, the parse of  *)
(*           a DEX input, and for an APK the start of the run up to the    *)
(*           creation of the pool.                                         *)
(***************************************************************************)
EXTENDS Integers, Sequences, FiniteSets, TLC

\* ------------------------------------------------------------------ bounds
MaxEntries == 2
MaxClassDefs == 2
MaxThreads == 2
MaxArchiveClassDefs == 3

\* --------------------------------------------------------------- constants
JD_DEX_TASK_DECOMPILE == "JD_DEX_TASK_DECOMPILE"
JD_DEX_TASK_SMALI == "JD_DEX_TASK_SMALI"
jd_dex_task_type == {JD_DEX_TASK_DECOMPILE, JD_DEX_TASK_SMALI}

\* threads: the submitting thread and the workers 1..thread_count
MainThread == 0
NoThread == -1

VARIABLES
    pc,            \* position of the main thread
    zip,           \* the archive: a sequence of entries (input)
    zip_handle,    \* TRUE while apk->zip is open
    thread_num,    \* apk->thread_num
    type,          \* apk->type
    threadpool,    \* apk->threadpool: "NULL", "live" or "destroyed"
    entries_size,  \* apk->entries_size
    added,         \* apk->added
    done,          \* apk->done
    i,             \* entry index of the fan-out loop (0-based)
    j,             \* class-def index of the fan-out loop (0-based)
    tasks,         \* jd_dex_task objects handed to threadpool_add, in order
    queue,         \* the pool's task queue (indices into tasks)
    lock,          \* owner of threadpool->lock, or NoThread
    shutdown,      \* the pool is shutting down (threadpool_destroy was called)
    wpc,           \* position of each worker
    wtask,         \* task a worker is running (index into tasks), 0 if none
    tls_pool,      \* tls->pool of each worker: arena id, 0 if never set
    pools,         \* live mem_pool arenas (ids)
    apk_pool,      \* apk->pool (arena id), 0 before it is created
    global_pool,   \* the process-wide pool of mem_init_pool is live
    files,         \* output files written
    meta,          \* the jd_meta_dex image of each entry, as parse_dex_from_buffer
                   \* returned it and as the run has written it since
    progress,      \* the progress line on the terminal: <<done, added>>, <<>> if none
    argv,          \* <<>> when argv[1] is NULL, else <<path>>
    optv,          \* the options after the path, as getopt sees them
    fs,            \* the file at the path: whether it opens, its first bytes,
                   \* and whether the container behind them is well formed
    optind,        \* number of options getopt has consumed
    ft,            \* the local ft of parse_opt
    opt,           \* the jd_opt object
    opt_alloc,     \* TRUE once parse_opt has allocated opt
    out_dir,       \* TRUE once mkdir_p has created the output directory
    exit_code      \* exit status of the process, -1 while it runs

vars == <<pc, zip, zip_handle, thread_num, type, threadpool, entries_size, added,
          done, i, j, tasks, queue, lock, shutdown, wpc, wtask, tls_pool, pools,
          apk_pool, global_pool, files, progress, meta,
          argv, optv, fs, optind, ft, opt, opt_alloc, out_dir, exit_code>>

\* the state of the command line front end
cli_vars == <<argv, optv, fs, optind, ft, opt, opt_alloc, out_dir, exit_code>>

\* the state of an APK run that the front end does not touch
apk_vars == <<zip, zip_handle, threadpool, entries_size, added, done, i, j, tasks,
              queue, lock, shutdown, wpc, wtask, tls_pool, pools, apk_pool,
              global_pool, files, progress, meta>>

\* ------------------------------------------------------------------ inputs
dot_dex == <<".", "d", "e", "x">>
EntryNames == { <<"c", ".", "d", "e", "x">>,
                <<"r", ".", "x", "m", "l">>,
                <<"d", "e", "x">> }
ClassKinds == {"top", "inner", "anonymous"}

SeqsUpTo(S, n) == UNION { [1..k -> S] : k \in 0..n }

\* format_ok: the bytes of the entry are a well-formed DEX container
ZipEntries ==
    { [name |-> n, class_defs |-> c, format_ok |-> TRUE] :
        n \in {e \in EntryNames : e # <<"c", ".", "d", "e", "x">>}, c \in {<<>>} }
    \cup
    { [name |-> <<"c", ".", "d", "e", "x">>, class_defs |-> c, format_ok |-> TRUE] :
        c \in SeqsUpTo(ClassKinds, MaxClassDefs) }

RECURSIVE TotalClassDefs(_)
TotalClassDefs(a) ==
    IF a = <<>> THEN 0 ELSE Len(Head(a).class_defs) + TotalClassDefs(Tail(a))

Archives ==
    { a \in SeqsUpTo(ZipEntries, MaxEntries) : TotalClassDefs(a) <= MaxArchiveClassDefs }

\* ----------------------------------------------------------------- helpers
str_end_with(s, suffix) ==
    /\ Len(s) >= Len(suffix)
    /\ SubSeq(s, Len(s) - Len(suffix) + 1, Len(s)) = suffix

dex_class_is_inner_class(cf) == cf = "inner"
dex_class_is_anonymous_class(cf) == cf = "anonymous"

Workers == DOMAIN wpc

\* output file of a task: one file per scheduled class
FileOf(t, ext) == [dex |-> t.dex, cf |-> t.cf, ext |-> ext]

\* mem_create_pool(): a new arena, at an address no live arena occupies
mem_create_pool == CHOOSE p \in 1..(Cardinality(pools) + 1) : p \notin pools

\* ------------------------------------------------------------ the thread pool
\* threadpool_create_in(pool, thread_count, 0): thread_count idle workers
threadpool_create_in(n) == [w \in 1..n |-> "idle"]

\* pthread_mutex_lock(threadpool->lock) by thread t is possible when the lock is free
CanLock(t) == lock = NoThread

\* ------------------------------------------------------- apk_decompile_analyse
\* lines 143-157: the pools, the jd_apk object and the thread pool
apk_decompile_analyse ==
    /\ pc = "apk_decompile_analyse"
    /\ global_pool' = TRUE
    /\ apk_pool' = mem_create_pool
    /\ pools' = pools \cup {mem_create_pool}
    /\ IF thread_num > 1
         THEN /\ threadpool' = "live"
              /\ wpc' = threadpool_create_in(thread_num)
              /\ wtask' = [w \in 1..thread_num |-> 0]
              /\ tls_pool' = [w \in 1..thread_num |-> 0]
         ELSE /\ threadpool' = "NULL"
              /\ UNCHANGED <<wpc, wtask, tls_pool>>
    /\ pc' = "zip_open"
    /\ UNCHANGED <<zip, zip_handle, thread_num, type, entries_size, added, done, i, j,
                   tasks, queue, lock, shutdown, files, progress>>
    /\ UNCHANGED meta
    /\ UNCHANGED cli_vars

\* ---------------------------------------------------- apk_decompile_task_start
\* lines 75-77
zip_open ==
    /\ pc = "zip_open"
    /\ zip_handle' = TRUE
    /\ entries_size' = Len(zip)
    /\ i' = 0
    /\ pc' = "entry_loop"
    /\ UNCHANGED <<zip, thread_num, type, threadpool, added, done, j, tasks, queue,
                   lock, shutdown, wpc, wtask, tls_pool, pools, apk_pool,
                   global_pool, files, progress>>
    /\ UNCHANGED meta
    /\ UNCHANGED cli_vars

\* lines 79-85: an entry whose name does not end in .dex is skipped
entry_skip ==
    /\ pc = "entry_loop"
    /\ i < entries_size
    /\ ~str_end_with(zip[i + 1].name, dot_dex)
    /\ i' = i + 1
    /\ UNCHANGED <<pc, zip, zip_handle, thread_num, type, threadpool, entries_size,
                   added, done, j, tasks, queue, lock, shutdown, wpc, wtask, tls_pool,
                   pools, apk_pool, global_pool, files, progress>>
    /\ UNCHANGED meta
    /\ UNCHANGED cli_vars

\* no image: the entry has not been parsed
NoImage == [parsed |-> FALSE, source_dir |-> "NULL"]
\* the image as parse_dex_from_buffer returns it
ParsedImage == [parsed |-> TRUE, source_dir |-> "NULL"]

\* lines 87-95: the entry is read into apk->pool and parsed
entry_parse ==
    /\ pc = "entry_loop"
    /\ i < entries_size
    /\ str_end_with(zip[i + 1].name, dot_dex)
    /\ zip[i + 1].format_ok
    /\ meta' = [meta EXCEPT ![i + 1] = ParsedImage]
    /\ pc' = "source_dir"
    /\ UNCHANGED <<zip, zip_handle, thread_num, type, threadpool, entries_size, added,
                   done, i, j, tasks, queue, lock, shutdown, wpc, wtask, tls_pool, pools,
                   apk_pool, global_pool, files, progress>>
    /\ UNCHANGED cli_vars

\* lines 94-96 on an entry that is not a well-formed container: the result of
\* parse_dex_from_buffer is used unchecked. Either the parser gave no image and
\* the process dies on it (line 95, line 96), or it gave an image of what it
\* could read and the run goes on with that
entry_parse_error ==
    /\ pc = "entry_loop"
    /\ i < entries_size
    /\ str_end_with(zip[i + 1].name, dot_dex)
    /\ ~zip[i + 1].format_ok
    /\ \/ /\ pc' = "crashed"
          /\ UNCHANGED meta
       \/ /\ pc' = "source_dir"
          /\ meta' = [meta EXCEPT ![i + 1] = ParsedImage]
    /\ UNCHANGED <<zip, zip_handle, thread_num, type, threadpool, entries_size, added,
                   done, i, j, tasks, queue, lock, shutdown, wpc, wtask, tls_pool, pools,
                   apk_pool, global_pool, files, progress>>
    /\ UNCHANGED cli_vars

\* the fan-out without line 96
entry_source_dir_unset ==
    /\ pc = "source_dir"
    /\ j' = 0
    /\ pc' = "class_loop"
    /\ UNCHANGED <<zip, zip_handle, thread_num, type, threadpool, entries_size, added,
                   done, i, tasks, queue, lock, shutdown, wpc, wtask, tls_pool, pools,
                   apk_pool, global_pool, files, progress>>
    /\ UNCHANGED meta
    /\ UNCHANGED cli_vars

\* lines 96-98: meta->source_dir = apk->save_dir; the class-def loop starts
entry_source_dir ==
    /\ pc = "source_dir"
    /\ meta' = [meta EXCEPT ![i + 1].source_dir = "save_dir"]
    /\ j' = 0
    /\ pc' = "class_loop"
    /\ UNCHANGED <<zip, zip_handle, thread_num, type, threadpool, entries_size, added,
                   done, i, tasks, queue, lock, shutdown, wpc, wtask, tls_pool, pools,
                   apk_pool, global_pool, files, progress>>
    /\ UNCHANGED cli_vars

\* the filter applied whatever the task kind
class_filtered_any_type(cf) ==
    dex_class_is_inner_class(cf) \/ dex_class_is_anonymous_class(cf)

\* lines 100-104: the inner/anonymous filter of Decompile mode
class_filtered(cf) ==
    /\ type = JD_DEX_TASK_DECOMPILE
    /\ (dex_class_is_inner_class(cf) \/ dex_class_is_anonymous_class(cf))

class_defs_size == Len(zip[i + 1].class_defs)
class_def == zip[i + 1].class_defs[j + 1]

\* lines 98-104: a filtered class-def is passed over
class_skip ==
    /\ pc = "class_loop"
    /\ j < class_defs_size
    /\ class_filtered(class_def)
    /\ j' = j + 1
    /\ UNCHANGED <<pc, zip, zip_handle, thread_num, type, threadpool, entries_size,
                   added, done, i, tasks, queue, lock, shutdown, wpc, wtask, tls_pool,
                   pools, apk_pool, global_pool, files, progress>>
    /\ UNCHANGED meta
    /\ UNCHANGED cli_vars

\* lines 106-122: the task object and the handler passed to threadpool_add
make_task ==
    [dex |-> i, cf |-> j, type |-> type,
     fn |-> IF type = JD_DEX_TASK_SMALI THEN "apk_smali_thread_task"
                                        ELSE "apk_decompile_thread_task"]

\* lines 106-122 with a pool: threadpool_add takes the pool's lock, queues the
\* task and wakes a worker
class_enqueue ==
    /\ pc = "class_loop"
    /\ j < class_defs_size
    /\ ~class_filtered(class_def)
    /\ threadpool = "live"
    /\ CanLock(MainThread)
    /\ tasks' = Append(tasks, make_task)
    /\ queue' = Append(queue, Len(tasks) + 1)
    /\ pc' = "added"
    /\ UNCHANGED <<zip, zip_handle, thread_num, type, threadpool, entries_size, added,
                   done, i, j, lock, shutdown, wpc, wtask, tls_pool, pools, apk_pool, global_pool, files, progress>>
    /\ UNCHANGED meta
    /\ UNCHANGED cli_vars

\* lines 106-122 without a pool (apk->threadpool == NULL): threadpool_add either
\* rejects the call, the task is not queued, or the process dies on the null pool
class_enqueue_null ==
    /\ pc = "class_loop"
    /\ j < class_defs_size
    /\ ~class_filtered(class_def)
    /\ threadpool = "NULL"
    /\ tasks' = Append(tasks, make_task)
    /\ \/ pc' = "added"
       \/ pc' = "crashed"
    /\ UNCHANGED <<zip, zip_handle, thread_num, type, threadpool, entries_size, added,
                   done, i, j, queue, lock, shutdown, wpc, wtask, tls_pool, pools,
                   apk_pool, global_pool, files, progress>>
    /\ UNCHANGED meta
    /\ UNCHANGED cli_vars

\* line 123: apk->added++
added_inc ==
    /\ pc = "added"
    /\ added' = added + 1
    /\ j' = j + 1
    /\ pc' = "class_loop"
    /\ UNCHANGED <<zip, zip_handle, thread_num, type, threadpool, entries_size, done,
                   i, tasks, queue, lock, shutdown, wpc, wtask, tls_pool, pools,
                   apk_pool, global_pool, files, progress>>
    /\ UNCHANGED meta
    /\ UNCHANGED cli_vars

\* line 98 false: the next entry
class_loop_end ==
    /\ pc = "class_loop"
    /\ j >= class_defs_size
    /\ i' = i + 1
    /\ pc' = "entry_loop"
    /\ UNCHANGED <<zip, zip_handle, thread_num, type, threadpool, entries_size, added,
                   done, j, tasks, queue, lock, shutdown, wpc, wtask, tls_pool, pools,
                   apk_pool, global_pool, files, progress>>
    /\ UNCHANGED meta
    /\ UNCHANGED cli_vars

\* line 79 false, line 126: zip_close
zip_close ==
    /\ pc = "entry_loop"
    /\ i >= entries_size
    /\ zip_handle' = FALSE
    /\ pc' = "apk_release"
    /\ UNCHANGED <<zip, thread_num, type, threadpool, entries_size, added, done, i, j,
                   tasks, queue, lock, shutdown, wpc, wtask, tls_pool, pools, apk_pool, global_pool, files, progress>>
    /\ UNCHANGED meta
    /\ UNCHANGED cli_vars

\* ------------------------------------------------------------------ apk_release
\* the release without threadpool_destroy
apk_release_nojoin ==
    /\ pc = "apk_release"
    /\ pc' = "free"
    /\ UNCHANGED <<zip, zip_handle, thread_num, type, threadpool, entries_size, added,
                   done, i, j, tasks, queue, lock, shutdown, wpc, wtask, tls_pool,
                   pools, apk_pool, global_pool, files, progress>>
    /\ UNCHANGED meta
    /\ UNCHANGED cli_vars

\* lines 131-132: threadpool_destroy(pool, 1) marks the pool as shutting down
\* under its lock and then joins the workers; without a pool it is not called
apk_release ==
    /\ pc = "apk_release"
    /\ IF threadpool = "live"
         THEN /\ CanLock(MainThread)
              /\ shutdown' = TRUE
              /\ pc' = "join"
         ELSE /\ pc' = "free"
              /\ UNCHANGED shutdown
    /\ UNCHANGED <<zip, zip_handle, thread_num, type, threadpool, entries_size, added,
                   done, i, j, tasks, queue, lock, wpc, wtask, tls_pool, pools,
                   apk_pool, global_pool, files, progress>>
    /\ UNCHANGED meta
    /\ UNCHANGED cli_vars

\* threadpool_destroy returns once every worker has exited
threadpool_join ==
    /\ pc = "join"
    /\ \A w \in Workers : wpc[w] = "exited"
    /\ threadpool' = "destroyed"
    /\ pc' = "free"
    /\ UNCHANGED <<zip, zip_handle, thread_num, type, entries_size, added, done, i, j,
                   tasks, queue, lock, shutdown, wpc, wtask, tls_pool, pools, apk_pool, global_pool, files, progress>>
    /\ UNCHANGED meta
    /\ UNCHANGED cli_vars

\* lines 134-135: mem_pool_free(apk->pool); mem_free_pool()
apk_release_free ==
    /\ pc = "free"
    /\ pools' = pools \ {apk_pool}
    /\ global_pool' = FALSE
    /\ pc' = "returned"
    /\ UNCHANGED <<zip, zip_handle, thread_num, type, threadpool, entries_size, added,
                   done, i, j, tasks, queue, lock, shutdown, wpc, wtask, tls_pool,
                   apk_pool, files, progress>>
    /\ UNCHANGED meta
    /\ UNCHANGED cli_vars

\* ---------------------------------------------------------------- pool workers
\* a worker waits under the pool's lock until a task is queued or the pool shuts down
worker_lock(w) ==
    /\ pc # "crashed"
    /\ wpc[w] = "idle"
    /\ CanLock(w)
    /\ (queue # <<>> \/ shutdown)
    /\ lock' = w
    /\ wpc' = [wpc EXCEPT ![w] = "locked"]
    /\ UNCHANGED <<pc, zip, zip_handle, thread_num, type, threadpool, entries_size,
                   added, done, i, j, tasks, queue, shutdown, wtask, tls_pool, pools,
                   apk_pool, global_pool, files, progress>>
    /\ UNCHANGED meta
    /\ UNCHANGED cli_vars

\* it takes the head of the queue, releases the lock and calls the task's handler
worker_take(w) ==
    /\ pc # "crashed"
    /\ wpc[w] = "locked"
    /\ queue # <<>>
    /\ wtask' = [wtask EXCEPT ![w] = Head(queue)]
    /\ queue' = Tail(queue)
    /\ lock' = NoThread
    /\ wpc' = [wpc EXCEPT ![w] = "task_entry"]
    /\ UNCHANGED <<pc, zip, zip_handle, thread_num, type, threadpool, entries_size,
                   added, done, i, j, tasks, shutdown, tls_pool, pools, apk_pool, global_pool, files, progress>>
    /\ UNCHANGED meta
    /\ UNCHANGED cli_vars

\* on shutdown with an empty queue it releases the lock and exits
worker_exit(w) ==
    /\ pc # "crashed"
    /\ wpc[w] = "locked"
    /\ queue = <<>>
    /\ shutdown
    /\ lock' = NoThread
    /\ wpc' = [wpc EXCEPT ![w] = "exited"]
    /\ UNCHANGED <<pc, zip, zip_handle, thread_num, type, threadpool, entries_size,
                   added, done, i, j, tasks, queue, shutdown, wtask, tls_pool, pools,
                   apk_pool, global_pool, files, progress>>
    /\ UNCHANGED meta
    /\ UNCHANGED cli_vars

\* ------------------------------------------------------------ the task handlers
\* tls->pool = mem_create_pool(); the class is processed and its output file
\* written and closed
task_enter(w, fn, ext) ==
    /\ pc # "crashed"
    /\ wpc[w] = "task_entry"
    /\ tasks[wtask[w]].fn = fn
    /\ tls_pool' = [tls_pool EXCEPT ![w] = mem_create_pool]
    /\ pools' = pools \cup {mem_create_pool}
    /\ files' = files \cup {FileOf(tasks[wtask[w]], ext)}
    /\ wpc' = [wpc EXCEPT ![w] = "task_free"]
    /\ UNCHANGED <<pc, zip, zip_handle, thread_num, type, threadpool, entries_size,
                   added, done, i, j, tasks, queue, lock, shutdown, wtask, apk_pool,
                   global_pool, progress>>
    /\ UNCHANGED meta
    /\ UNCHANGED cli_vars

\* the handler without its mem_pool_free
task_free_leak(w, fn) ==
    /\ pc # "crashed"
    /\ wpc[w] = "task_free"
    /\ tasks[wtask[w]].fn = fn
    /\ wpc' = [wpc EXCEPT ![w] = "apk_status"]
    /\ UNCHANGED <<pc, zip, zip_handle, thread_num, type, threadpool, entries_size,
                   added, done, i, j, tasks, queue, lock, shutdown, wtask, tls_pool,
                   pools, apk_pool, global_pool, files, progress>>
    /\ UNCHANGED meta
    /\ UNCHANGED cli_vars

\* the handler taking the pool's lock itself before it calls apk_status
task_free_locked(w, fn) ==
    /\ pc # "crashed"
    /\ wpc[w] = "task_free"
    /\ tasks[wtask[w]].fn = fn
    /\ CanLock(w)
    /\ lock' = w
    /\ pools' = pools \ {tls_pool[w]}
    /\ wpc' = [wpc EXCEPT ![w] = "apk_status"]
    /\ UNCHANGED <<pc, zip, zip_handle, thread_num, type, threadpool, entries_size,
                   added, done, i, j, tasks, queue, shutdown, wtask, tls_pool,
                   apk_pool, global_pool, files, progress>>
    /\ UNCHANGED meta
    /\ UNCHANGED cli_vars

\* mem_pool_free(tls->pool), then the call of apk_status
task_free(w, fn) ==
    /\ pc # "crashed"
    /\ wpc[w] = "task_free"
    /\ tasks[wtask[w]].fn = fn
    /\ pools' = pools \ {tls_pool[w]}
    /\ wpc' = [wpc EXCEPT ![w] = "apk_status"]
    /\ UNCHANGED <<pc, zip, zip_handle, thread_num, type, threadpool, entries_size,
                   added, done, i, j, tasks, queue, lock, shutdown, wtask, tls_pool,
                   apk_pool, global_pool, files, progress>>
    /\ UNCHANGED meta
    /\ UNCHANGED cli_vars

\* apk_decompile_thread_task, lines 34-45, 47
apk_decompile_thread_task_enter(w) == task_enter(w, "apk_decompile_thread_task", "java")
apk_decompile_thread_task_free(w) == task_free(w, "apk_decompile_thread_task")

\* apk_smali_thread_task, lines 54-66, 68
apk_smali_thread_task_enter(w) == task_enter(w, "apk_smali_thread_task", "smali")
apk_smali_thread_task_free(w) == task_free(w, "apk_smali_thread_task")

\* ------------------------------------------------------------------- apk_status
\* line 13: pthread_mutex_lock(apk->threadpool->lock)
apk_status_lock(w) ==
    /\ pc # "crashed"
    /\ wpc[w] = "apk_status"
    /\ CanLock(w)
    /\ lock' = w
    /\ wpc' = [wpc EXCEPT ![w] = "status_locked"]
    /\ UNCHANGED <<pc, zip, zip_handle, thread_num, type, threadpool, entries_size,
                   added, done, i, j, tasks, queue, shutdown, wtask, tls_pool, pools,
                   apk_pool, global_pool, files, progress>>
    /\ UNCHANGED meta
    /\ UNCHANGED cli_vars

\* apk_status without its pthread_mutex_unlock
apk_status_update_nounlock(w) ==
    /\ pc # "crashed"
    /\ wpc[w] = "status_locked"
    /\ done' = done + 1
    /\ progress' = <<done + 1, added>>
    /\ wtask' = [wtask EXCEPT ![w] = 0]
    /\ wpc' = [wpc EXCEPT ![w] = "idle"]
    /\ UNCHANGED <<pc, zip, zip_handle, thread_num, type, threadpool, entries_size,
                   added, i, j, tasks, queue, lock, shutdown, tls_pool, pools,
                   apk_pool, global_pool, files>>
    /\ UNCHANGED meta
    /\ UNCHANGED cli_vars

\* apk_status without its printf
apk_status_update_nopaint(w) ==
    /\ pc # "crashed"
    /\ wpc[w] = "status_locked"
    /\ done' = done + 1
    /\ lock' = NoThread
    /\ wtask' = [wtask EXCEPT ![w] = 0]
    /\ wpc' = [wpc EXCEPT ![w] = "idle"]
    /\ UNCHANGED <<pc, zip, zip_handle, thread_num, type, threadpool, entries_size,
                   added, i, j, tasks, queue, shutdown, tls_pool, pools, apk_pool,
                   global_pool, files, progress>>
    /\ UNCHANGED meta
    /\ UNCHANGED cli_vars

\* lines 14-19: done++, the progress line, the unlock; the handler returns
apk_status_update(w) ==
    /\ pc # "crashed"
    /\ wpc[w] = "status_locked"
    /\ done' = done + 1
    /\ progress' = <<done + 1, added>>
    /\ lock' = NoThread
    /\ wtask' = [wtask EXCEPT ![w] = 0]
    /\ wpc' = [wpc EXCEPT ![w] = "idle"]
    /\ UNCHANGED <<pc, zip, zip_handle, thread_num, type, threadpool, entries_size,
                   added, i, j, tasks, queue, shutdown, tls_pool, pools, apk_pool, global_pool, files>>
    /\ UNCHANGED meta
    /\ UNCHANGED cli_vars

\* ------------------------------------------------------------- magic_of_file
\* a uint32_t is kept as its two 16-bit halves: hi * 65536 + lo
u32(hi, lo) == [hi |-> hi, lo |-> lo]

\* lines 11-13: 0xCAFEBABE, 0x504B0304, 0x6465780A
JAVA_CLASS_MAGIC == u32(51966, 47806)
JAR_FILE_MAGIC == u32(20555, 772)
DEX_FILE_MAGIC == u32(25701, 30730)

JD_FILE_TYPE_UNKNOWN == "JD_FILE_TYPE_UNKNOWN"
JD_FILE_TYPE_JAVA_CLASS == "JD_FILE_TYPE_JAVA_CLASS"
JD_FILE_TYPE_JAR == "JD_FILE_TYPE_JAR"
JD_FILE_TYPE_DEX == "JD_FILE_TYPE_DEX"
JD_FILE_TYPE_APK == "JD_FILE_TYPE_APK"

JD_FILE_OPTION_NONE == "JD_FILE_OPTION_NONE"
JD_FILE_OPTION_DUMP == "JD_FILE_OPTION_DUMP"
JD_FILE_OPTION_SMALI == "JD_FILE_OPTION_SMALI"

dot_apk == <<".", "a", "p", "k">>

\* fread(&magic, 1, 4, fp) on a little-endian host
fread_u32(bytes) ==
    u32(bytes[3] + bytes[4] * 256, bytes[1] + bytes[2] * 256)

\* the magic compared as it was read
be_magic_noswap(magic) == magic

\* lines 52-55: the byte swap
be_magic_of(magic) ==
    u32((magic.lo % 256) * 256 + ((magic.lo \div 256) % 256),
        (magic.hi % 256) * 256 + ((magic.hi \div 256) % 256))

\* lines 38-74
magic_of_file(filepath, file) ==
    IF ~file.opens THEN JD_FILE_TYPE_UNKNOWN
    ELSE IF Len(file.bytes) # 4 THEN JD_FILE_TYPE_UNKNOWN
    ELSE LET be_magic == be_magic_of(fread_u32(file.bytes)) IN
         CASE be_magic = JAVA_CLASS_MAGIC -> JD_FILE_TYPE_JAVA_CLASS
           [] be_magic = JAR_FILE_MAGIC ->
                IF str_end_with(filepath, dot_apk) THEN JD_FILE_TYPE_APK
                                                   ELSE JD_FILE_TYPE_JAR
           [] be_magic = DEX_FILE_MAGIC -> JD_FILE_TYPE_DEX
           [] OTHER -> JD_FILE_TYPE_UNKNOWN

is_jvm_class(o) == o.ft = JD_FILE_TYPE_JAVA_CLASS
is_jar_file(o) == o.ft = JD_FILE_TYPE_JAR
is_dex_file(o) == o.ft = JD_FILE_TYPE_DEX
is_apk_file(o) == o.ft = JD_FILE_TYPE_APK

\* lines 113-123
prepare_opt_threads(t) ==
    IF t = 0 THEN 4
    ELSE IF t < 2 THEN 1
    ELSE IF t > 16 THEN 16
    ELSE t

\* atoi(optarg): the leading decimal number, 0 when there is none
atoi(a) ==
    CASE a = "-1" -> -1
      [] a = "0" -> 0
      [] a = "1" -> 1
      [] a = "2" -> 2
      [] a = "8" -> 8
      [] a = "16" -> 16
      [] a = "17" -> 17
      [] a = "100" -> 100
      [] OTHER -> 0

\* getopt(argc, argv, "spo:t:h") on one option: the returned character and optopt
getopt(o) ==
    IF o.opt \in {"s", "p", "h"} THEN [oc |-> o.opt, optopt |-> ""]
    ELSE IF o.opt \in {"o", "t"} /\ o.arg # "" THEN [oc |-> o.opt, optopt |-> ""]
    ELSE [oc |-> "?", optopt |-> o.opt]

\* ------------------------------------------------------------------- parse_opt
EXIT_SUCCESS == 0
EXIT_FAILURE == 1
Running == -1

\* lines 135-150: the path, the magic, the jd_opt object
parse_opt ==
    /\ pc = "parse_opt"
    /\ IF argv = <<>> \/ argv[1] \in {<<"-", "h">>, <<"-", "-", "h", "e", "l", "p">>}
         THEN /\ exit_code' = EXIT_SUCCESS
              /\ pc' = "exit"
              /\ UNCHANGED <<ft, opt, opt_alloc, optind>>
         ELSE /\ ft' = magic_of_file(argv[1], fs)
              /\ IF ft' = JD_FILE_TYPE_UNKNOWN
                   THEN /\ exit_code' = EXIT_FAILURE
                        /\ pc' = "exit"
                        /\ UNCHANGED <<opt, opt_alloc, optind>>
                   ELSE /\ opt' = [path |-> argv[1], out |-> "", ft |-> ft',
                                   option |-> JD_FILE_OPTION_NONE, thread_num |-> 0]
                        /\ opt_alloc' = TRUE
                        /\ optind' = 0
                        /\ pc' = "getopt"
                        /\ UNCHANGED exit_code
    /\ UNCHANGED <<argv, optv, fs, out_dir, thread_num, type>>
    /\ UNCHANGED apk_vars

\* lines 152-198: one turn of the getopt loop
parse_opt_getopt ==
    /\ pc = "getopt"
    /\ optind < Len(optv)
    /\ LET o == optv[optind + 1]
           g == getopt(o)
       IN  /\ optind' = optind + 1
           /\ CASE g.oc = "p" ->
                     /\ opt' = [opt EXCEPT !.option = JD_FILE_OPTION_DUMP]
                     /\ UNCHANGED <<pc, exit_code>>
                [] g.oc = "o" ->
                     /\ opt' = [opt EXCEPT !.out = o.arg]
                     /\ UNCHANGED <<pc, exit_code>>
                [] g.oc = "s" ->
                     /\ opt' = [opt EXCEPT !.option = JD_FILE_OPTION_SMALI]
                     /\ UNCHANGED <<pc, exit_code>>
                [] g.oc = "t" ->
                     /\ opt' = [opt EXCEPT !.thread_num = atoi(o.arg)]
                     /\ UNCHANGED <<pc, exit_code>>
                [] g.oc = "?" ->
                     /\ UNCHANGED <<opt, pc, exit_code>>
                [] OTHER ->
                     /\ exit_code' = EXIT_FAILURE
                     /\ pc' = "exit"
                     /\ UNCHANGED opt
    /\ UNCHANGED <<argv, optv, fs, ft, opt_alloc, out_dir, thread_num, type>>
    /\ UNCHANGED apk_vars

\* line 199: getopt returned -1
parse_opt_return ==
    /\ pc = "getopt"
    /\ optind >= Len(optv)
    /\ pc' = "main"
    /\ UNCHANGED <<thread_num, type>>
    /\ UNCHANGED cli_vars
    /\ UNCHANGED apk_vars

\* ------------------------------------------------------------------------ main
\* lines 96-111: the default output path, then mkdir_p
prepare_opt_output(o) ==
    IF o.out = "" THEN [o EXCEPT !.out = "default"] ELSE o

\* lines 209-219, then free_opt and return 0
run_for_jvm_class ==
    /\ pc = "main"
    /\ is_jvm_class(opt)
    /\ exit_code' = EXIT_SUCCESS
    /\ pc' = "exit"
    /\ UNCHANGED <<argv, optv, fs, optind, ft, opt, opt_alloc, out_dir, thread_num, type>>
    /\ UNCHANGED apk_vars

\* lines 221-230, then free_opt and return 0
run_for_jvm_jar ==
    /\ pc = "main"
    /\ is_jar_file(opt)
    /\ opt' = [prepare_opt_output(opt) EXCEPT
                  !.thread_num = prepare_opt_threads(opt.thread_num)]
    /\ out_dir' = TRUE
    /\ exit_code' = EXIT_SUCCESS
    /\ pc' = "exit"
    /\ UNCHANGED <<argv, optv, fs, optind, ft, opt_alloc, thread_num, type>>
    /\ UNCHANGED apk_vars

\* lines 232-254: the dispatch on opt->option; in Decompile mode the output
\* directory is made (line 245) before dex_file_analyse is called (line 251)
run_for_dex ==
    /\ pc = "main"
    /\ is_dex_file(opt)
    /\ IF opt.option = JD_FILE_OPTION_DUMP
         THEN /\ pc' = "dex_file_dump"
              /\ UNCHANGED <<opt, out_dir>>
         ELSE IF opt.option = JD_FILE_OPTION_SMALI
         THEN /\ pc' = "dex2smali"
              /\ UNCHANGED <<opt, out_dir>>
         ELSE /\ opt' = [prepare_opt_output(opt) EXCEPT
                            !.thread_num = prepare_opt_threads(opt.thread_num)]
              /\ out_dir' = TRUE
              /\ pc' = "dex_file_analyse"
    /\ UNCHANGED <<argv, optv, fs, optind, ft, opt_alloc, exit_code, thread_num, type>>
    /\ UNCHANGED apk_vars

\* the callee reads and parses the container: a format error ends the process
\* with EXIT_FAILURE; otherwise the callee returns, then free_opt and return 0
dex_parse_and_run(callee) ==
    /\ pc = callee
    /\ exit_code' = IF fs.format_ok THEN EXIT_SUCCESS ELSE EXIT_FAILURE
    /\ pc' = "exit"
    /\ UNCHANGED <<argv, optv, fs, optind, ft, opt, opt_alloc, out_dir, thread_num, type>>
    /\ UNCHANGED apk_vars

\* line 236
dex_file_dump == dex_parse_and_run("dex_file_dump")
\* line 241
dex2smali == dex_parse_and_run("dex2smali")
\* line 251
dex_file_analyse == dex_parse_and_run("dex_file_analyse")

\* apk_file_analyse(path, out, thread_num): the call receives no task kind
apk_file_analyse_type == JD_DEX_TASK_DECOMPILE

\* lines 256-264: the output directory, the clamp, the call of the APK run
run_for_apk ==
    /\ pc = "main"
    /\ is_apk_file(opt)
    /\ opt' = [prepare_opt_output(opt) EXCEPT
                  !.thread_num = prepare_opt_threads(opt.thread_num)]
    /\ out_dir' = TRUE
    /\ thread_num' = opt'.thread_num
    /\ type' = apk_file_analyse_type
    /\ pc' = "apk_decompile_analyse"
    /\ UNCHANGED <<argv, optv, fs, optind, ft, opt_alloc, exit_code>>
    /\ UNCHANGED apk_vars

\* ---------------------------------------------------------------- specification
\* the state before apk_decompile_analyse has built anything
ApkInit ==
    /\ zip_handle = FALSE
    /\ threadpool = "NULL"
    /\ entries_size = 0
    /\ added = 0
    /\ done = 0
    /\ i = 0
    /\ j = 0
    /\ tasks = <<>>
    /\ queue = <<>>
    /\ lock = NoThread
    /\ shutdown = FALSE
    /\ wpc = <<>>
    /\ wtask = <<>>
    /\ tls_pool = <<>>
    /\ pools = {}
    /\ apk_pool = 0
    /\ global_pool = FALSE
    /\ files = {}
    /\ progress = <<>>
    /\ meta = [e \in DOMAIN zip |-> NoImage]

\* one call apk_decompile_analyse(path, save_dir, thread_num, type) on an archive
Init ==
    /\ pc = "apk_decompile_analyse"
    /\ zip \in Archives
    /\ thread_num \in 1..MaxThreads
    /\ type \in jd_dex_task_type
    /\ ApkInit
    /\ argv = <<>>
    /\ optv = <<>>
    /\ fs = [opens |-> FALSE, bytes |-> <<>>, format_ok |-> TRUE]
    /\ optind = 0
    /\ ft = JD_FILE_TYPE_APK
    /\ opt = [path |-> <<>>, out |-> "", ft |-> JD_FILE_TYPE_APK,
              option |-> JD_FILE_OPTION_NONE, thread_num |-> 0]
    /\ opt_alloc = FALSE
    /\ out_dir = FALSE
    /\ exit_code = Running

MainNext ==
    \/ apk_decompile_analyse
    \/ zip_open
    \/ entry_skip
    \/ entry_parse
    \/ entry_source_dir
    \/ class_skip
    \/ class_enqueue
    \/ class_enqueue_null
    \/ added_inc
    \/ class_loop_end
    \/ zip_close
    \/ apk_release
    \/ threadpool_join
    \/ apk_release_free

WorkerNext(w) ==
    \/ worker_lock(w)
    \/ worker_take(w)
    \/ worker_exit(w)
    \/ apk_decompile_thread_task_enter(w)
    \/ apk_decompile_thread_task_free(w)
    \/ apk_smali_thread_task_enter(w)
    \/ apk_smali_thread_task_free(w)
    \/ apk_status_lock(w)
    \/ apk_status_update(w)

Next ==
    \/ MainNext
    \/ \E w \in Workers : WorkerNext(w)

Spec == Init /\ [][Next]_vars

FairSpec ==
    /\ Spec
    /\ WF_vars(MainNext)
    /\ \A w \in 1..(MaxThreads + 1) : WF_vars(w \in Workers /\ WorkerNext(w))

\* ------------------------------------------- archives with a malformed entry
BadZipEntries ==
    { [name |-> <<"c", ".", "d", "e", "x">>, class_defs |-> c, format_ok |-> FALSE] :
        c \in SeqsUpTo(ClassKinds, MaxClassDefs) }

ErrArchives ==
    { a \in SeqsUpTo(ZipEntries \cup BadZipEntries, MaxEntries) :
        /\ TotalClassDefs(a) <= MaxArchiveClassDefs
        /\ \E e \in DOMAIN a : ~a[e].format_ok }

\* one call of apk_decompile_analyse on an archive that holds a malformed .dex entry
ErrInit ==
    /\ pc = "apk_decompile_analyse"
    /\ zip \in ErrArchives
    /\ thread_num \in 1..MaxThreads
    /\ type \in jd_dex_task_type
    /\ ApkInit
    /\ argv = <<>>
    /\ optv = <<>>
    /\ fs = [opens |-> FALSE, bytes |-> <<>>, format_ok |-> TRUE]
    /\ optind = 0
    /\ ft = JD_FILE_TYPE_APK
    /\ opt = [path |-> <<>>, out |-> "", ft |-> JD_FILE_TYPE_APK,
              option |-> JD_FILE_OPTION_NONE, thread_num |-> 0]
    /\ opt_alloc = FALSE
    /\ out_dir = FALSE
    /\ exit_code = Running

ErrNext ==
    \/ Next
    \/ entry_parse_error

ErrSpec == ErrInit /\ [][ErrNext]_vars

\* -------------------------------------------------- the command line front end
MaxOpts == 2

Paths == { <<"a", ".", "a", "p", "k">>, <<"a", ".", "j", "a", "r">>, <<"a", "p", "k">>,
           <<"-", "h">>, <<"-", "-", "h", "e", "l", "p">> }

\* format_ok: the container behind the magic is well formed (for a DEX: header
\* size, little-endian endian_tag, sections within the file)
Files ==
    { [opens |-> FALSE, bytes |-> <<>>, format_ok |-> TRUE] }
    \cup
    { [opens |-> TRUE, bytes |-> b, format_ok |-> TRUE] :
        b \in { <<>>, <<202, 254>>,
                <<202, 254, 186, 190>>, <<190, 186, 254, 202>>,
                <<80, 75, 3, 4>>, <<4, 3, 75, 80>>, <<80, 75, 5, 6>>,
                <<100, 101, 120, 10>>, <<10, 120, 101, 100>>,
                <<0, 0, 0, 0>> } }
    \cup
    { [opens |-> TRUE, bytes |-> <<100, 101, 120, 10>>, format_ok |-> FALSE] }

ThreadArgs == {"-1", "0", "1", "2", "8", "16", "17", "100", "abc"}

Options ==
    { [opt |-> o, arg |-> ""] : o \in {"p", "s", "h", "x", "o", "t"} }
    \cup { [opt |-> "o", arg |-> "out"] }
    \cup { [opt |-> "t", arg |-> a] : a \in ThreadArgs }

\* an option that wants an argument lacks it only at the end of the command line
CommandLines ==
    { v \in SeqsUpTo(Options, MaxOpts) :
        \A k \in 1..Len(v) :
            (v[k].opt \in {"o", "t"} /\ v[k].arg = "") => k = Len(v) }

\* the process at the entry of main
MainInit ==
    /\ pc = "parse_opt"
    /\ argv \in {<<>>} \cup { <<p>> : p \in Paths }
    /\ optv \in CommandLines
    /\ fs \in Files
    /\ optind = 0
    /\ ft = JD_FILE_TYPE_UNKNOWN
    /\ opt = [path |-> <<>>, out |-> "", ft |-> JD_FILE_TYPE_UNKNOWN,
              option |-> JD_FILE_OPTION_NONE, thread_num |-> 0]
    /\ opt_alloc = FALSE
    /\ out_dir = FALSE
    /\ exit_code = Running
    /\ zip = <<>>
    /\ thread_num = 0
    /\ type = JD_DEX_TASK_DECOMPILE
    /\ ApkInit

CliNext ==
    \/ parse_opt
    \/ parse_opt_getopt
    \/ parse_opt_return
    \/ run_for_jvm_class
    \/ run_for_jvm_jar
    \/ run_for_dex
    \/ dex_file_dump
    \/ dex2smali
    \/ dex_file_analyse
    \/ run_for_apk
    \/ apk_decompile_analyse

MainSpec == MainInit /\ [][CliNext]_vars

\* ============================================================== properties
\* the fan-out has ended: the main thread is in or past apk_release
FanOutDone == pc \in {"apk_release", "join", "free", "returned"}

\* a name whose last four characters are ".dex"
EndsInDex(n) ==
    /\ Len(n) >= 4
    /\ \A k \in 1..4 : n[Len(n) - 4 + k] = dot_dex[k]

\* the class-defs of the archive that the run has to schedule: <<entry, class-def>>
Eligible ==
    UNION { { <<e, c>> : c \in { d \in DOMAIN zip[e].class_defs :
                                   \/ type = JD_DEX_TASK_SMALI
                                   \/ zip[e].class_defs[d] = "top" } } :
            e \in { x \in DOMAIN zip : EndsInDex(zip[x].name) } }

TaskKey(k) == <<tasks[k].dex + 1, tasks[k].cf + 1>>
TaskKeys == { TaskKey(k) : k \in DOMAIN tasks }

\* a task is pending (queued) or running (a worker is inside its handler)
TaskPending == queue # <<>> \/ \E w \in Workers : wtask[w] # 0

\* C1: after apk_decompile_analyse has returned, done == added and every task
\* handed to the pool has run: it is counted in done and its file is written.
C1_DoneEqualsAdded ==
    pc = "returned" =>
        /\ done = added
        /\ done = Len(tasks)
        /\ \A k \in DOMAIN tasks :
              \E f \in files : f.dex = tasks[k].dex /\ f.cf = tasks[k].cf

RECURSIVE SubmittedThreads(_, _)
SubmittedThreads(v, t) ==
    IF v = <<>> THEN t
    ELSE SubmittedThreads(Tail(v),
                          IF Head(v).opt = "t" /\ Head(v).arg # ""
                            THEN atoi(Head(v).arg) ELSE t)

ClampedThreads(t) ==
    IF t = 0 THEN 4 ELSE IF t < 2 THEN 1 ELSE IF t > 16 THEN 16 ELSE t

\* C3: the pool of the run has the clamped size: 4 for t = 0, 1 for t < 2 and
\* t # 0, 16 for t > 16, t otherwise; always within 1..16.
C3_PoolSize ==
    pc = "zip_open" =>
        /\ threadpool = "live"
        /\ Len(wpc) = ClampedThreads(SubmittedThreads(optv, 0))
        /\ Len(wpc) \in 1..16

\* the type the table of file prefixes gives (the bytes in file order)
TableType(path, file) ==
    IF ~file.opens \/ Len(file.bytes) # 4 THEN JD_FILE_TYPE_UNKNOWN
    ELSE CASE file.bytes = <<202, 254, 186, 190>> -> JD_FILE_TYPE_JAVA_CLASS
           [] file.bytes = <<100, 101, 120, 10>> -> JD_FILE_TYPE_DEX
           [] file.bytes = <<80, 75, 3, 4>> ->
                IF /\ Len(path) >= 4
                   /\ \A k \in 1..4 : path[Len(path) - 4 + k] = dot_apk[k]
                  THEN JD_FILE_TYPE_APK ELSE JD_FILE_TYPE_JAR
           [] OTHER -> JD_FILE_TYPE_UNKNOWN

\* parse_opt has classified the file at the path
Classified ==
    /\ pc # "parse_opt"
    /\ argv # <<>>
    /\ argv[1] \notin {<<"-", "h">>, <<"-", "-", "h", "e", "l", "p">>}

\* C4: the classifier returns the one type the table gives for the prefix, and
\* on UNKNOWN the process has exited with code 1 with no option parsed, no
\* jd_opt built and no output directory created.
C4_Magic ==
    Classified =>
        /\ ft = TableType(argv[1], fs)
        /\ ft # JD_FILE_TYPE_UNKNOWN => (opt_alloc /\ opt.ft = ft)
        /\ ft = JD_FILE_TYPE_UNKNOWN =>
              /\ pc = "exit"
              /\ exit_code = 1
              /\ optind = 0
              /\ ~opt_alloc
              /\ ~out_dir

\* a file with a full four-byte prefix that is no magic, options on the command
\* line: the process has exited
C4_Witness ==
    /\ Classified
    /\ fs.opens
    /\ Len(fs.bytes) = 4
    /\ ft = JD_FILE_TYPE_UNKNOWN
    /\ optv # <<>>
    /\ pc = "exit"

\* C5: in a run with a pool, and so with the progress mutex, added and done are
\* written only by a thread that holds the mutex.
C5_CountersUnderLock ==
    [][ threadpool = "live" =>
          /\ added' # added => lock = MainThread
          /\ done' # done => \E w \in Workers : lock = w /\ wpc[w] = "status_locked"
      ]_vars

\* the archive handle has been closed
ZipReleased == FanOutDone /\ ~zip_handle
\* apk->pool, with the .dex buffers and the jd_apk object, has been freed
ApkPoolReleased == apk_pool # 0 /\ apk_pool \notin pools
\* the process-wide pool has been freed
GlobalPoolReleased == pc # "apk_decompile_analyse" /\ ~global_pool

\* C6 as stated: none of the ApkContext pool, the archive handle and the
\* process-wide pool is released while a task is pending or running.
C6_AllAfterJoin ==
    (ZipReleased \/ ApkPoolReleased \/ GlobalPoolReleased) => ~TaskPending

\* C6 amended: apk->pool and the process-wide pool are released, and the pool
\* destroyed, only when no task is pending or running and every worker has
\* exited; the archive handle is closed when the fan-out has read every entry.
C6_PoolsAfterJoin ==
    /\ (ApkPoolReleased \/ GlobalPoolReleased \/ threadpool = "destroyed") =>
          /\ ~TaskPending
          /\ \A w \in Workers : wpc[w] = "exited"
          /\ threadpool # "live"
    /\ threadpool = "destroyed" => done = Len(tasks)
    /\ ZipReleased => i >= entries_size

\* both pools released after a run whose pool completed two tasks
C6_Witness ==
    /\ ApkPoolReleased
    /\ GlobalPoolReleased
    /\ threadpool = "destroyed"
    /\ done >= 2

\* workers inside a handler, between mem_create_pool and mem_pool_free
InTask == { w \in Workers : wpc[w] = "task_free" }

\* C7: a worker inside a handler holds one live arena of its own, distinct from
\* apk->pool and from every other worker's; outside a handler it holds none:
\* the live arenas are exactly apk->pool and those of the workers inside a
\* handler; after the join no task arena is live.
C7_Arenas ==
    /\ \A w \in InTask : tls_pool[w] \in pools /\ tls_pool[w] # apk_pool
    /\ \A w1, w2 \in InTask : w1 # w2 => tls_pool[w1] # tls_pool[w2]
    /\ pools \ {apk_pool} = { tls_pool[w] : w \in InTask }
    /\ threadpool = "destroyed" => pools \subseteq {apk_pool}

\* two workers are inside a handler at once, a third task has already ended
C7_Witness ==
    /\ Cardinality(InTask) = 2
    /\ done >= 1

\* C8: a worker holds the lock exactly while it is taking a task from the queue
\* or inside apk_status; it never holds it when it calls apk_status or when it
\* asks for it again.
C8_OneLock ==
    \A w \in Workers : (lock = w) <=> (wpc[w] \in {"locked", "status_locked"})

\* one worker is inside apk_status with the lock, another is calling apk_status
C8_Witness ==
    \E w1, w2 \in Workers :
        /\ w1 # w2
        /\ wpc[w1] = "status_locked"
        /\ lock = w1
        /\ wpc[w2] = "apk_status"

\* C9: once the pool exists the run ends: apk_decompile_analyse returns, with
\* the queue empty, every task handed to the pool counted and its file written.
C9_Terminates ==
    (threadpool = "live") ~>
        (/\ pc = "returned"
         /\ queue = <<>>
         /\ done = Len(tasks)
         /\ \A k \in DOMAIN tasks :
               \E f \in files : f.dex = tasks[k].dex /\ f.cf = tasks[k].cf)

\* the main thread waits in the join while tasks are still queued
C9_Witness ==
    /\ pc = "join"
    /\ Len(queue) >= 2

\* C10: after a run with a pool that scheduled N > 0 tasks the progress line
\* reads N (N).
C10_LastLine ==
    (pc = "returned" /\ threadpool = "destroyed" /\ added > 0) =>
        progress = <<added, added>>

\* a DEX input whose container does not parse
DexParseFails == Classified /\ ft = JD_FILE_TYPE_DEX /\ ~fs.format_ok

\* C11: when a DEX input fails to parse the process exits with code 1 and no
\* output directory has been created; in Decompile mode the output directory
\* exists only once the container has been parsed.
C11_NoOutDirOnParseFailure ==
    DexParseFails =>
        /\ ~out_dir
        /\ pc = "exit" => exit_code = 1

\* the class-defs to schedule that lie in well-formed entries
EligibleOk == { k \in Eligible : zip[k[1]].format_ok }

\* C12: in a run with a pool over an archive with a malformed .dex entry, no
\* task is enqueued for the malformed entry, the process does not die in the
\* fan-out, and at the return every eligible class-def of the other entries
\* has been enqueued and completed, the pool joined.
C12_FormatErrorLocal ==
    threadpool # "NULL" =>
        /\ \A k \in DOMAIN tasks : zip[tasks[k].dex + 1].format_ok
        /\ pc # "crashed"
        /\ pc = "returned" =>
              /\ threadpool = "destroyed"
              /\ \A e \in EligibleOk :
                    \E f \in files : f.dex = e[1] - 1 /\ f.cf = e[2] - 1

\* the image a task refers to
ImageOf(k) == tasks[k].dex + 1

\* C14 as stated: once parse_dex_from_buffer has returned an image, no step of
\* the run writes a field of it.
C14_ReadOnlyAfterParse ==
    [][ \A e \in DOMAIN meta : meta[e].parsed => meta'[e] = meta[e] ]_vars

\* C14 amended: the fan-out completes the image (source_dir) after the parse and
\* before the first enqueue; every task refers to the completed image of its
\* entry, the same for all tasks of the entry, and from the first enqueue on no
\* step of the fan-out or of a task writes it.
C14_ReadOnlyAfterEnqueue ==
    [][ /\ \A k \in DOMAIN tasks : meta'[ImageOf(k)] = meta[ImageOf(k)]
        /\ \A k \in DOMAIN tasks' :
              meta'[tasks'[k].dex + 1] = [parsed |-> TRUE, source_dir |-> "save_dir"]
      ]_vars

\* two tasks of one entry, one inside its handler while the other is still queued
C14_Witness ==
    \E k1, k2 \in DOMAIN tasks :
        /\ k1 # k2
        /\ ImageOf(k1) = ImageOf(k2)
        /\ meta[ImageOf(k1)].source_dir = "save_dir"
        /\ \E w \in Workers : wtask[w] = k1 /\ wpc[w] = "task_free"
        /\ k2 \in { queue[q] : q \in DOMAIN queue }

\* an option that is unknown, or that lacks the argument it requires
UsageErrorOption(o) ==
    \/ o.opt \notin {"s", "p", "o", "t", "h"}
    \/ o.opt \in {"o", "t"} /\ o.arg = ""

\* the exit code the options call for, read in order: 2 at a usage error, 0 at
\* -h, -1 when they call for none
RECURSIVE OptionsExit(_)
OptionsExit(v) ==
    IF v = <<>> THEN -1
    ELSE IF UsageErrorOption(Head(v)) THEN 2
    ELSE IF Head(v).opt = "h" THEN 0
    ELSE OptionsExit(Tail(v))

\* C13: the process exits 2 on a usage error (no input path, unknown option,
\* option without its argument), 0 when help is requested and on success, 1 on
\* unsupported or invalid input.
C13_ExitCodes ==
    pc = "exit" =>
        exit_code =
            IF argv = <<>> THEN 2
            ELSE IF argv[1] \in {<<"-", "h">>, <<"-", "-", "h", "e", "l", "p">>} THEN 0
            ELSE IF TableType(argv[1], fs) = JD_FILE_TYPE_UNKNOWN THEN 1
            ELSE IF OptionsExit(optv) # -1 THEN OptionsExit(optv)
            ELSE IF ~fs.format_ok THEN 1
            ELSE 0

\* what the command line asks for
GivenOption(c) == \E k \in DOMAIN optv : optv[k].opt = c
SmaliAsked == GivenOption("s") /\ ~GivenOption("p")
DecompileAsked == ~GivenOption("s") /\ ~GivenOption("p")

\* main has dispatched a DEX input / has started the run of an APK input
DexDispatched == pc \in {"dex_file_dump", "dex2smali", "dex_file_analyse"}
ApkStarted == ft = JD_FILE_TYPE_APK /\ pc \in {"apk_decompile_analyse", "zip_open"}

\* C15: with -s a DEX input is emitted as Smali and the run of an APK input has
\* task kind Smali; without -s and -p a DEX input is decompiled and the run of
\* an APK input has task kind Decompile.
C15_SmaliSelected ==
    /\ DexDispatched =>
          /\ SmaliAsked => pc = "dex2smali"
          /\ DecompileAsked => pc = "dex_file_analyse"
    /\ ApkStarted =>
          /\ SmaliAsked => type = JD_DEX_TASK_SMALI
          /\ DecompileAsked => type = JD_DEX_TASK_DECOMPILE

\* C16: with a worker count below 2 the run still does its work: the fan-out
\* does not die, every task is handed to a pool that exists, and at the return
\* every eligible class-def has been processed.
C16_SingleThreadWorks ==
    (thread_num < 2 /\ pc # "apk_decompile_analyse") =>
        /\ pc # "crashed"
        /\ tasks # <<>> => threadpool = "live"
        /\ pc = "returned" =>
              \A e \in Eligible : \E f \in files : f.dex = e[1] - 1 /\ f.cf = e[2] - 1

\* tasks handed to the pool and not yet counted in done
TasksOpen == Len(queue) + Cardinality({ w \in Workers : wtask[w] # 0 })

\* the line on the terminal shows the current value of done, no line before the
\* first completion; every task of the pool is counted once: open or done
ProgressShowsDone ==
    /\ done = 0 <=> progress = <<>>
    /\ progress # <<>> => progress[1] = done
    /\ threadpool # "NULL" => done + TasksOpen = Len(tasks)
    /\ threadpool = "destroyed" => done = Len(tasks)

\* C17: done changes and a line is painted only by a worker inside apk_status
\* that holds the mutex, in one step that adds exactly 1 to done, paints the new
\* value and releases the mutex, after the file of its task is written and its
\* arena freed; so the values painted are 1, 2, ..., N, each once.
C17_ProgressSequence ==
    [][ /\ (done' # done \/ progress' # progress) =>
              \E w \in Workers :
                  /\ lock = w
                  /\ wpc[w] = "status_locked"
                  /\ wtask[w] # 0
                  /\ \E f \in files : /\ f.dex = tasks[wtask[w]].dex
                                       /\ f.cf = tasks[wtask[w]].cf
                  /\ w \notin InTask
                  /\ Cardinality(pools \ {apk_pool}) = Cardinality(InTask)
                  /\ done' = done + 1
                  /\ progress' # <<>>
                  /\ progress'[1] = done + 1
                  /\ lock' = NoThread
                  /\ wtask'[w] = 0
        /\ ProgressShowsDone'
      ]_vars

\* the line reads 2 and a worker in apk_status is about to paint 3
C17_Witness ==
    /\ progress # <<>>
    /\ progress[1] = 2
    /\ \E w \in Workers : wpc[w] = "status_locked" /\ lock = w

\* C18: done <= added in every state, and no progress line shows a done value
\* greater than its added value.
C18_DoneLeAdded ==
    /\ done <= added
    /\ progress # <<>> => progress[1] <= progress[2]

====
